---- MODULE Spec2Model ----
(***************************************************************************)
(* Model of the Lovelace card of snmp-switch-manager                       *)
(* (src/www/community/switch-manager-card/switch-manager-card.js).         *)
(*                                                                         *)
(* The source holds two SwitchManagerCard classes that the properties are  *)
(* about:                                                                  *)
(*   variant "dialog": lines 341-776, explicit ports, a modal dialog with  *)
(*                     toggle / save description / cancel;                 *)
(*   variant "auto":   lines 794-1102, explicit ports or auto-discovery,   *)
(*                     a click toggles the port directly.                  *)
(* One card instance is modelled; Init picks the class it is built from.   *)
(***************************************************************************)
EXTENDS Integers, Sequences, FiniteSets, Bags, TLC

VARIABLES
    variant,        \* which SwitchManagerCard class the instance is
    config,         \* this._config
    hass,           \* this._hass
    dialogEntity,   \* this._dialogEntity            (dialog variant)
    needsAuto,      \* this._needsAuto               (auto variant)
    autoStarted,    \* this._autoStarted             (auto variant)
    output,         \* what this.shadowRoot displays, with the live handlers' captures
    discoveries,    \* the bag of _autoDiscoverPorts() calls in flight
    pending,        \* the bag of callService() invocations in flight
    lastEvent,      \* history: the event processed last
    startedSinceConfig, \* history: discoveries started since the last accepted setConfig
    firstPushDue,   \* history: the last accepted setConfig asked for discovery of a
                    \* named device and no state push has arrived since
    latestPorts     \* history: the port list of the last accepted setConfig, or the
                    \* result of the discovery started under it once that arrived

vars == <<variant, config, hass, dialogEntity, needsAuto, autoStarted, output,
          discoveries, pending, lastEvent, startedSinceConfig, firstPushDue,
          latestPorts>>

-----------------------------------------------------------------------------
(* Bounds of the model *)

\* longest raw port list the host pushes in RenderSpec
MaxPorts == 2
\* _autoDiscoverPorts() calls in flight at once
MaxInFlight == 2
\* service invocations in flight at once
MaxPending == 1

-----------------------------------------------------------------------------
(* JavaScript values that configuration fields and attributes can hold *)

Undefined == [t |-> "undefined", n |-> 0, s |-> ""]
Null == [t |-> "null", n |-> 0, s |-> ""]
NaN == [t |-> "NaN", n |-> 0, s |-> ""]
Num(k) == [t |-> "number", n |-> k, s |-> ""]
Str(x) == [t |-> "string", n |-> 0, s |-> x]

\* the decimal strings the inputs use, with their values
DecimalStrings == [x \in {"10", "20"} |-> IF x = "10" THEN 10 ELSE 20]

\* Number(v)
ToNumber(v) ==
    CASE v.t = "number" -> v
      [] v.t = "NaN" -> NaN
      [] v.t = "undefined" -> NaN
      [] v.t = "null" -> Num(0)
      [] v.t = "string" ->
            IF v.s = "" THEN Num(0)
            ELSE IF v.s \in DOMAIN DecimalStrings THEN Num(DecimalStrings[v.s])
            ELSE NaN

\* Number.isFinite(v): no coercion, only a finite number passes
IsFinite(v) == v.t = "number"

\* v != null  (loose: false for null and undefined)
NotNullish(v) == v.t \notin {"undefined", "null"}

-----------------------------------------------------------------------------
(* Entities and state snapshots (hass.states) *)

EntityIds == {"p1", "p2", "p3"}

Absent ==
    [present |-> FALSE, state |-> "", friendly_name |-> "", description |-> "",
     Name |-> "", Index |-> Undefined]

EntityState(st, fn, desc, nm, idx) ==
    [present |-> TRUE, state |-> st, friendly_name |-> fn, description |-> desc,
     Name |-> nm, Index |-> idx]

NoHass == [set |-> FALSE, states |-> [e \in EntityIds |-> Absent]]

Hass(states) == [set |-> TRUE, states |-> states]

\* hass.states[id], undefined (Absent) for an identifier the snapshot lacks
StateOf(hs, id) == IF id \in DOMAIN hs.states THEN hs.states[id] ELSE Absent

-----------------------------------------------------------------------------
(* Raw configuration as the host pushes it *)

NoList == [present |-> FALSE, items |-> <<>>]
List(items) == [present |-> TRUE, items |-> items]

StringEntry(id) ==
    [kind |-> "string", entity |-> id, x |-> Undefined, y |-> Undefined, label |-> Undefined]
ObjectEntry(id, x, y, label) ==
    [kind |-> "object", entity |-> id, x |-> x, y |-> y, label |-> label]
\* a port entry that is null
NullEntry ==
    [kind |-> "null", entity |-> "", x |-> Undefined, y |-> Undefined, label |-> Undefined]

RawConfig(ports, entities, layout, image, markerSize, deviceId, deviceName) ==
    [ports |-> ports, entities |-> entities, layout |-> layout, image |-> image,
     marker_size |-> markerSize, device_id |-> deviceId, device_name |-> deviceName]

\* faulty variant of RawPorts: the field entities is preferred
RawPortsEntitiesFirst(raw) == IF raw.entities.present THEN raw.entities ELSE raw.ports

\* config.ports ?? config.entities
RawPorts(raw) == IF raw.ports.present THEN raw.ports ELSE raw.entities

-----------------------------------------------------------------------------
(* Stored configuration *)

NoConfig ==
    [set |-> FALSE, image |-> "", layout |-> "", marker_size |-> Undefined,
     ports |-> <<>>, device_id |-> "", device_name |-> ""]

Port(id, x, y, label) == [entity |-> id, x |-> x, y |-> y, label |-> label]

\* faulty variant of EntryThrows: no entry is rejected
EntryNeverThrows(entry) == FALSE

\* Each port entry must include an entity property
EntryThrows(entry) == entry.kind # "string" /\ entry.entity = ""

\* faulty variant of NormalizeDialog: only entity and the coordinates are copied
NormalizeDialogNoLabel(entry) ==
    IF entry.kind = "string" THEN Port(entry.entity, Undefined, Undefined, Undefined)
    ELSE Port(entry.entity,
              IF NotNullish(entry.x) THEN ToNumber(entry.x) ELSE entry.x,
              IF NotNullish(entry.y) THEN ToNumber(entry.y) ELSE entry.y,
              Undefined)

\* dialog variant: the map callback of setConfig
NormalizeDialog(entry) ==
    IF entry.kind = "string" THEN Port(entry.entity, Undefined, Undefined, Undefined)
    ELSE Port(entry.entity,
              IF NotNullish(entry.x) THEN ToNumber(entry.x) ELSE entry.x,
              IF NotNullish(entry.y) THEN ToNumber(entry.y) ELSE entry.y,
              entry.label)

\* auto variant: normalize, { ...entry }
NormalizeAuto(entry) ==
    IF entry.kind = "string" THEN Port(entry.entity, Undefined, Undefined, Undefined)
    ELSE Port(entry.entity, entry.x, entry.y, entry.label)

AllFinite(ports) ==
    \A i \in 1..Len(ports) : IsFinite(ports[i].x) /\ IsFinite(ports[i].y)

\* config.layout || (ports.every(finite x and y) ? "image" : "grid")
\* faulty variant of LayoutOf: the default is grid whatever the coordinates are
LayoutOfGridDefault(rawLayout, ports) == IF rawLayout # "" THEN rawLayout ELSE "grid"

LayoutOf(rawLayout, ports) ==
    IF rawLayout # "" THEN rawLayout
    ELSE IF AllFinite(ports) THEN "image" ELSE "grid"

DefaultMarkerSize == 26

\* Number(config.marker_size ?? 26)
MarkerNumber(v) == IF NotNullish(v) THEN ToNumber(v) ELSE Num(DefaultMarkerSize)

\* the fallback to 26 for a non-finite or non-positive size
MarkerSizeOf(v) ==
    LET m == MarkerNumber(v)
    IN  IF IsFinite(m) /\ m.n > 0 THEN m ELSE Num(DefaultMarkerSize)


-----------------------------------------------------------------------------
(* Setting the stored configuration *)

\* dialog variant: setConfig throws
SetConfigThrowsDialog(raw) ==
    LET rawPorts == RawPorts(raw)
    IN  \/ ~rawPorts.present
        \/ Len(rawPorts.items) = 0
        \/ \E i \in 1..Len(rawPorts.items) : EntryThrows(rawPorts.items[i])

\* the error the first rejected entry of the list raises, "" when none is rejected.
\* The dialog variant reads entry.entity of a null entry (a TypeError); the
\* auto variant tests !entry first.
EntryError(v, items) ==
    LET bad == {i \in 1..Len(items) : EntryThrows(items[i])}
        first == CHOOSE i \in bad : \A j \in bad : i <= j
    IN  IF bad = {} THEN ""
        ELSE IF v = "dialog" /\ items[first].kind = "null" THEN "TypeError"
        ELSE "Each port entry must include an entity property."

\* dialog variant: the error setConfig throws, "" when it accepts
SetConfigErrorDialog(raw) ==
    LET rawPorts == RawPorts(raw)
    IN  IF ~rawPorts.present \/ Len(rawPorts.items) = 0
        THEN "You must provide a list of port switch entities."
        ELSE EntryError("dialog", rawPorts.items)

\* dialog variant: the configuration setConfig stores
StoredConfigDialog(raw) ==
    LET rawPorts == RawPorts(raw)
        ports == [i \in 1..Len(rawPorts.items) |-> NormalizeDialog(rawPorts.items[i])]
    IN  [set |-> TRUE, image |-> raw.image, layout |-> LayoutOf(raw.layout, ports),
         marker_size |-> MarkerSizeOf(raw.marker_size), ports |-> ports,
         device_id |-> "", device_name |-> ""]

\* auto variant: Array.isArray(rawPorts) && rawPorts.length > 0
HasExplicitPorts(raw) == RawPorts(raw).present /\ Len(RawPorts(raw).items) > 0

\* auto variant: setConfig throws (only inside the explicit-ports branch)
SetConfigThrowsAuto(raw) ==
    /\ HasExplicitPorts(raw)
    /\ \E i \in 1..Len(RawPorts(raw).items) : EntryThrows(RawPorts(raw).items[i])

\* auto variant: the error setConfig throws, "" when it accepts
SetConfigErrorAuto(raw) ==
    IF HasExplicitPorts(raw) THEN EntryError("auto", RawPorts(raw).items) ELSE ""

\* auto variant: the configuration the explicit-ports branch stores
StoredConfigExplicit(raw) ==
    LET rawPorts == RawPorts(raw)
        ports == [i \in 1..Len(rawPorts.items) |-> NormalizeAuto(rawPorts.items[i])]
    IN  [set |-> TRUE, image |-> raw.image, layout |-> LayoutOf(raw.layout, ports),
         marker_size |-> MarkerSizeOf(raw.marker_size), ports |-> ports,
         device_id |-> raw.device_id, device_name |-> raw.device_name]

\* auto variant: the configuration the empty-ports branch stores
StoredConfigDiscover(raw) ==
    [set |-> TRUE, image |-> raw.image,
     layout |-> IF raw.layout # "" THEN raw.layout ELSE "grid",
     marker_size |-> MarkerNumber(raw.marker_size), ports |-> <<>>,
     device_id |-> raw.device_id, device_name |-> raw.device_name]

-----------------------------------------------------------------------------
(* Reconciliation of the stored ports with the snapshot, and rendering *)

Resolved(id, st, x, y, label) ==
    [entityId |-> id, stateObj |-> st, x |-> x, y |-> y, label |-> label]

\* faulty variant of IsPresent: the filter keeps every configured port
IsPresentAlways(item) == TRUE

IsPresent(item) == item.stateObj.present

\* faulty variant of ReconcileDialog: x and y are swapped
ReconcileDialogSwapped(ports, hs) ==
    SelectSeq([i \in 1..Len(ports) |->
                  Resolved(ports[i].entity, StateOf(hs, ports[i].entity),
                           ports[i].y, ports[i].x, ports[i].label)],
              IsPresent)

\* dialog variant: ports.map({...port, entityId, stateObj}).filter(item => item.stateObj)
ReconcileDialog(ports, hs) ==
    SelectSeq([i \in 1..Len(ports) |->
                  Resolved(ports[i].entity, StateOf(hs, ports[i].entity),
                           ports[i].x, ports[i].y, ports[i].label)],
              IsPresent)

\* auto variant: ports.map(p => st ? {id, st, x: Number(p.x), y: Number(p.y)} : null)
\*               .filter(Boolean); the result has no label property
ReconcileAuto(ports, hs) ==
    SelectSeq([i \in 1..Len(ports) |->
                  Resolved(ports[i].entity, StateOf(hs, ports[i].entity),
                           ToNumber(ports[i].x), ToNumber(ports[i].y), Undefined)],
              IsPresent)

\* faulty variant of UseImageLayout: the coordinates of the resolved ports are not looked at
UseImageLayoutAnyPorts(layout, image, ports) == layout = "image" /\ image # ""

\* the condition of the image branch of _render
UseImageLayout(layout, image, ports) ==
    /\ layout = "image"
    /\ image # ""
    /\ \A i \in 1..Len(ports) : IsFinite(ports[i].x) /\ IsFinite(ports[i].y)

\* the branch of _render taken: image container, grid of tiles, or empty-state message
LayoutBranch(layout, image, ports) ==
    IF UseImageLayout(layout, image, ports) THEN "image"
    ELSE IF Len(ports) > 0 THEN "grid"
    ELSE "empty"

\* String.prototype.toUpperCase on the Name attributes the snapshots use
ToUpperCase(x) ==
    CASE x \in {"cpu", "Cpu", "cPU", "CPU"} -> "CPU"
      [] x = "Gi1" -> "GI1"
      [] x = "Gi2" -> "GI2"
      [] x = "Gi3" -> "GI3"
      [] OTHER -> x

\* String.prototype.toLowerCase on the state strings the snapshots use
ToLowerCase(x) ==
    CASE x \in {"ON", "On"} -> "on"
      [] x = "OFF" -> "off"
      [] OTHER -> x

\* dialog variant, image layout: the status class of a marker
MarkerStatusDialog(stateObj) ==
    IF stateObj.state = "on" THEN "on"
    ELSE IF stateObj.state = "off" THEN "off"
    ELSE "unknown"

\* dialog variant, grid layout: the status class of a tile's status dot
TileStatusDialog(stateObj) ==
    IF stateObj.state = "on" THEN "on"
    ELSE IF stateObj.state = "off" THEN "off"
    ELSE "unknown"

\* auto variant, image layout: "marker" or "marker off"
MarkerStatusAuto(stateObj) == IF ToLowerCase(stateObj.state) = "on" THEN "on" ELSE "off"

\* auto variant, grid layout: "toggle" or "toggle off"
TileStatusAuto(stateObj) == IF ToLowerCase(stateObj.state) = "on" THEN "on" ELSE "off"

\* the status classes of the displayed ports, in display order
StatusClasses(v, kind, ports) ==
    [i \in 1..Len(ports) |->
        CASE v = "dialog" /\ kind = "image" -> MarkerStatusDialog(ports[i].stateObj)
          [] v = "dialog" /\ kind # "image" -> TileStatusDialog(ports[i].stateObj)
          [] v = "auto" /\ kind = "image" -> MarkerStatusAuto(ports[i].stateObj)
          [] OTHER -> TileStatusAuto(ports[i].stateObj)]

NoDialog == [open |-> FALSE, entity |-> "", title |-> "", input |-> "", turnOn |-> FALSE]

\* faulty variant of CreateDialog: the title does not fall back to the identifier
CreateDialogNoFallback(hs, entityId) ==
    LET stateObj == StateOf(hs, entityId)
    IN  [open |-> TRUE,
         entity |-> entityId,
         title |-> stateObj.friendly_name,
         input |-> stateObj.description,
         turnOn |-> ~(stateObj.present /\ stateObj.state = "on")]

\* _createDialog: what the dialog shows and what its handlers capture
CreateDialog(hs, entityId) ==
    LET stateObj == StateOf(hs, entityId)
    IN  [open |-> TRUE,
         entity |-> entityId,
         title |-> IF stateObj.friendly_name # "" THEN stateObj.friendly_name ELSE entityId,
         input |-> stateObj.description,
         turnOn |-> ~(stateObj.present /\ stateObj.state = "on")]

Blank == [kind |-> "blank", ports |-> <<>>, status |-> <<>>, dialog |-> NoDialog]
Loading == [kind |-> "loading", ports |-> <<>>, status |-> <<>>, dialog |-> NoDialog]

\* faulty variant of RenderDialog: the text of the description input is carried over
\* to the rebuilt dialog of the same entity
RenderDialogKeepingInput(cfg, hs, dlg, old) ==
    IF ~cfg.set \/ ~hs.set THEN old
    ELSE LET ports == ReconcileDialog(cfg.ports, hs)
             kind == LayoutBranch(cfg.layout, cfg.image, ports)
             fresh == CreateDialog(hs, dlg)
         IN  [kind |-> kind,
              ports |-> ports,
              status |-> StatusClasses("dialog", kind, ports),
              dialog |-> IF dlg = "" THEN NoDialog
                         ELSE IF old.dialog.open /\ old.dialog.entity = dlg
                              THEN [fresh EXCEPT !.input = old.dialog.input]
                              ELSE fresh]

\* faulty variant of RenderDialog: the new tree is appended to the previous output
RenderDialogAppending(cfg, hs, dlg, old) ==
    IF ~cfg.set \/ ~hs.set THEN old
    ELSE LET ports == old.ports \o ReconcileDialog(cfg.ports, hs)
             kind == LayoutBranch(cfg.layout, cfg.image, ports)
         IN  [kind |-> kind,
              ports |-> ports,
              status |-> StatusClasses("dialog", kind, ports),
              dialog |-> IF dlg # "" THEN CreateDialog(hs, dlg) ELSE NoDialog]

\* dialog variant: _render
RenderDialog(cfg, hs, dlg, old) ==
    IF ~cfg.set \/ ~hs.set THEN old
    ELSE LET ports == ReconcileDialog(cfg.ports, hs)
             kind == LayoutBranch(cfg.layout, cfg.image, ports)
         IN  [kind |-> kind,
              ports |-> ports,
              status |-> StatusClasses("dialog", kind, ports),
              dialog |-> IF dlg # "" THEN CreateDialog(hs, dlg) ELSE NoDialog]

\* auto variant: _render
RenderAuto(cfg, hs) ==
    IF ~cfg.set \/ ~hs.set THEN Loading
    ELSE LET ports == ReconcileAuto(cfg.ports, hs)
             kind == LayoutBranch(IF cfg.layout # "" THEN cfg.layout ELSE "grid",
                                  cfg.image, ports)
         IN  [kind |-> kind,
              ports |-> ports,
              status |-> StatusClasses("auto", kind, ports),
              dialog |-> NoDialog]


-----------------------------------------------------------------------------
(* Auto-discovery (auto variant) *)

Device(id, name, nameByUser) == [id |-> id, name |-> name, name_by_user |-> nameByUser]
RegistryEntity(id, deviceId, platform, domain) ==
    [entity_id |-> id, device_id |-> deviceId, platform |-> platform, domain |-> domain]

Platform == "snmp_switch_manager"

\* faulty variant of FindDeviceIdByName: the last matching device is taken
FindDeviceIdByNameLast(devices, name) ==
    LET hits == {i \in 1..Len(devices) :
                    devices[i].name = name \/ devices[i].name_by_user = name}
    IN  IF hits = {} THEN ""
        ELSE devices[CHOOSE i \in hits : \A j \in hits : i >= j].id

\* _findDeviceIdByName: the id of the first device whose name or name_by_user is `name`
FindDeviceIdByName(devices, name) ==
    LET hits == {i \in 1..Len(devices) :
                    devices[i].name = name \/ devices[i].name_by_user = name}
    IN  IF hits = {} THEN ""
        ELSE devices[CHOOSE i \in hits : \A j \in hits : i <= j].id

\* position of an identifier in the lexical order localeCompare gives
IdRank(id) == CASE id = "p1" -> 1 [] id = "p2" -> 2 [] id = "p3" -> 3 [] OTHER -> 0

\* faulty variant of Compare: the Index attribute is not looked at
CompareById(a, b) == IdRank(a.id) - IdRank(b.id)

\* the comparator of filtered.sort: negative, zero or positive
Compare(a, b) ==
    LET ai == ToNumber(a.st.Index)
        bi == ToNumber(b.st.Index)
    IN  IF IsFinite(ai) /\ IsFinite(bi) THEN ai.n - bi.n
        ELSE IdRank(a.id) - IdRank(b.id)

\* insert x into a sorted sequence, after the elements that do not compare greater
Insert(sorted, x) ==
    LET keep == {k \in 0..Len(sorted) :
                    \A j \in (k + 1)..Len(sorted) : Compare(sorted[j], x) > 0}
        k == CHOOSE k \in keep : \A m \in keep : k <= m
    IN  SubSeq(sorted, 1, k) \o <<x>> \o SubSeq(sorted, k + 1, Len(sorted))

RECURSIVE SortCandidates(_)
\* Array.prototype.sort with Compare, as a stable insertion sort
SortCandidates(items) ==
    IF Len(items) = 0 THEN <<>>
    ELSE Insert(SortCandidates(SubSeq(items, 1, Len(items) - 1)), items[Len(items)])

\* faulty variant of IsOurs: the owning device is not looked at
IsOursAnyDevice(e, deviceId) == e.platform = Platform /\ e.domain = "switch"

IsOurs(e, deviceId) ==
    e.device_id = deviceId /\ e.platform = Platform /\ e.domain = "switch"

\* faulty variant of NotCpu: the comparison is case-sensitive
NotCpuExact(item) == item.st.Name # "CPU"

NotCpu(item) == ToUpperCase(item.st.Name) # "CPU"

HasState(item) == item.st.present

\* _autoDiscoverPorts after the entity registry answered: filter, join with the
\* snapshot, drop the CPU pseudo-port, sort, keep the identifiers
DiscoveredIds(deviceId, entities, hs) ==
    LET ours == SelectSeq(entities, LAMBDA e : IsOurs(e, deviceId))
        joined == [i \in 1..Len(ours) |->
                      [id |-> ours[i].entity_id, st |-> StateOf(hs, ours[i].entity_id)]]
        filtered == SelectSeq(SelectSeq(joined, HasState), NotCpu)
        sorted == SortCandidates(filtered)
    IN  [i \in 1..Len(sorted) |-> sorted[i].id]

\* an _autoDiscoverPorts() call in flight: what it awaits and what it has so far
Discovery(stage, deviceId, name, list) ==
    [stage |-> stage, deviceId |-> deviceId, name |-> name, list |-> list,
     superseded |-> FALSE]

\* _autoDiscoverPorts up to its first await (or its return)
StartDiscovery(cfg) ==
    IF cfg.device_id # "" THEN Discovery("entities", cfg.device_id, "", <<>>)
    ELSE IF cfg.device_name # "" THEN Discovery("devices", "", cfg.device_name, <<>>)
    ELSE Discovery("resolved", "", "", <<>>)

\* faulty variant of ShouldStartDiscovery: the latch _autoStarted is not tested
\* faulty variant of ShouldStartDiscovery: neither the discovery flag nor the stored
\* ports are looked at
ShouldStartDiscoveryAnyConfig(hs, cfg, needs, started) == hs.set /\ cfg.set /\ ~started

ShouldStartDiscoveryNoLatch(hs, cfg, needs, started) ==
    hs.set /\ cfg.set /\ needs /\ Len(cfg.ports) = 0

\* the guard of set hass that starts a discovery
ShouldStartDiscovery(hs, cfg, needs, started) ==
    /\ hs.set
    /\ cfg.set
    /\ needs
    /\ ~started
    /\ Len(cfg.ports) = 0

\* faulty variant of PortsFromIds: the result is wrapped in reverse order
PortsFromIdsReversed(list) ==
    [i \in 1..Len(list) |-> Port(list[Len(list) + 1 - i], Undefined, Undefined, Undefined)]

\* list.map((id) => ({ entity: id }))
PortsFromIds(list) == [i \in 1..Len(list) |-> Port(list[i], Undefined, Undefined, Undefined)]

\* the .then callback acts: Array.isArray(list) && list.length
ThenApplies(d) == Len(d.list) > 0

-----------------------------------------------------------------------------
(* Service invocations *)

Call(domain, service, entityId, description, closes) ==
    [domain |-> domain, service |-> service, entity_id |-> entityId,
     description |-> description, closes |-> closes]

\* faulty variant of TogglePortCall: the two services are exchanged
TogglePortCallSwapped(entityId, turnOn) ==
    Call("switch", IF turnOn THEN "turn_off" ELSE "turn_on", entityId, "", TRUE)

\* _togglePort(entityId, turnOn): the invocation it issues
TogglePortCall(entityId, turnOn) ==
    Call("switch", IF turnOn THEN "turn_on" ELSE "turn_off", entityId, "", TRUE)

\* _setDescription(entityId, description): the invocation it issues
SetDescriptionCall(entityId, description) ==
    Call("switch_manager", "set_port_description", entityId, description, TRUE)

\* auto variant, _toggle(entity_id): the invocation it issues
ToggleCall(hs, entityId) ==
    LET st == StateOf(hs, entityId)
        isOn == st.present /\ ToLowerCase(st.state) = "on"
    IN  Call("switch", IF isOn THEN "turn_off" ELSE "turn_on", entityId, "", FALSE)

\* a list field of the argument of setConfig: absent, empty, or with entries
ListKind(l) ==
    IF ~l.present THEN "absent" ELSE IF Len(l.items) = 0 THEN "empty" ELSE "entries"

\* what an event records of the argument of setConfig: whether its port list is
\* missing or empty, whether the list holds a non-string entry without an entity
\* identifier, whether it names a device, and what its fields ports and entities are
InputFacts(raw) ==
    LET rawPorts == RawPorts(raw)
    IN  [noPorts |-> ~rawPorts.present \/ Len(rawPorts.items) = 0,
         lacksEntity |-> \E i \in 1..Len(rawPorts.items) :
                            rawPorts.items[i].kind # "string" /\ rawPorts.items[i].entity = "",
         device |-> raw.device_id # "" \/ raw.device_name # "",
         ports |-> ListKind(raw.ports),
         entities |-> ListKind(raw.entities)]

\* recorded with an event that is not a setConfig call
NoInput ==
    [noPorts |-> FALSE, lacksEntity |-> FALSE, device |-> FALSE, ports |-> "absent",
     entities |-> "absent"]

\* recorded with an event that is not an accepted setConfig call
NoRaw == RawConfig(NoList, NoList, "", "", Undefined, "", "")

\* recorded with an event that is not a step of a discovery
NoDiscovery == Discovery("none", "", "", <<>>)

\* history: the operation, its argument, and for a setConfig call the facts of its
\* argument (the argument itself when it was accepted), for a step of a discovery
\* the registry answer and the discovery as it is after the step
Event(op, arg) ==
    [op |-> op, arg |-> arg, input |-> NoInput, raw |-> NoRaw, devices |-> <<>>,
     entities |-> <<>>, after |-> NoDiscovery, closed |-> ""]

\* the completion of an invocation: the entity it was for and the entity of the
\* dialog its handler closed ("" when no dialog was open or the handler closes none)
CompletionEvent(entityId, closed) == [Event("callSucceeded", entityId) EXCEPT !.closed = closed]

\* a setConfig call: its outcome and the facts of its argument
ConfigEvent(op, arg, raw) ==
    [Event(op, arg) EXCEPT !.input = InputFacts(raw),
                           !.raw = IF op = "setConfig" THEN raw ELSE NoRaw]

\* a step of a discovery: the answer it got and what it became (for its failure and
\* its completion callback: what it was)
DiscoveryEvent(op, arg, devices, entities, after) ==
    [Event(op, arg) EXCEPT !.devices = devices, !.entities = entities, !.after = after]

\* the raw configuration takes the empty-ports branch and names a device
AsksDiscovery(raw) ==
    ~HasExplicitPorts(raw) /\ (raw.device_id # "" \/ raw.device_name # "")


-----------------------------------------------------------------------------
(* What the host pushes and answers *)

P1On == EntityState("on", "Port 1", "old", "Gi1", Num(2))
P2Off == EntityState("off", "", "", "Gi2", Num(1))

Snapshot(a, b) ==
    Hass([e \in EntityIds |-> IF e = "p1" THEN a ELSE IF e = "p2" THEN b ELSE Absent])

HostSnapshots == {Snapshot(Absent, Absent), Snapshot(P1On, Absent), Snapshot(P1On, P2Off)}

Plain(ports, layout, image, deviceId, deviceName) ==
    RawConfig(ports, NoList, layout, image, Undefined, deviceId, deviceName)

HostConfigs ==
    { Plain(List(<<StringEntry("p1"), StringEntry("p2")>>), "", "", "", ""),
      Plain(List(<<StringEntry("p1")>>), "", "", "", ""),
      Plain(List(<<ObjectEntry("p1", Num(10), Num(20), Str("L1")),
                   ObjectEntry("p2", Num(20), Num(10), Undefined)>>),
            "", "bg.png", "dev1", ""),
      Plain(List(<<ObjectEntry("", Num(10), Num(20), Undefined)>>), "", "", "", ""),
      Plain(NoList, "", "", "dev1", ""),
      Plain(List(<<>>), "image", "bg.png", "", "SW1"),
      Plain(NoList, "", "", "", "") }

DeviceRegistries ==
    { <<>>,
      <<Device("dev2", "Core", ""), Device("dev1", "sw-1", "SW1")>> }

EntityRegistries ==
    { <<>>,
      <<RegistryEntity("p1", "dev1", Platform, "switch"),
        RegistryEntity("p2", "dev1", Platform, "switch"),
        RegistryEntity("p2", "dev2", Platform, "switch")>> }

Texts == {"", "new"}

\* the richer inputs of RenderSpec: every port list of up to MaxPorts entries
RichEntries ==
    { StringEntry("p1"),
      ObjectEntry("p1", Num(10), Num(20), Str("L1")),
      ObjectEntry("p2", Str("20"), Null, Undefined),
      ObjectEntry("", Num(10), Num(20), Undefined) }

RichPortLists == {List(items) : items \in UNION {[1..k -> RichEntries] : k \in 0..MaxPorts}}

RichConfigs ==
    {Plain(l, layout, image, "", "") :
        l \in RichPortLists, layout \in {"", "grid", "image"}, image \in {"", "bg.png"}}

P1Unavailable == EntityState("unavailable", "", "", "", Undefined)
P1Upper == EntityState("ON", "", "", "", Undefined)
\* a state object without a state string
P2NoState == EntityState("", "", "", "", Undefined)

RichSnapshots ==
    {Snapshot(a, b) : a \in {Absent, P1On, P1Unavailable}, b \in {Absent, P2Off}}

\* the inputs of ConfigSpec: port lists of up to MaxPorts entries under either key,
\* with and without a device identity
WideEntries ==
    { NullEntry,
      StringEntry("p1"),
      ObjectEntry("p2", Num(10), Num(20), Undefined),
      ObjectEntry("", Num(10), Num(20), Undefined) }

WidePortLists ==
    {NoList} \cup {List(items) : items \in UNION {[1..k -> WideEntries] : k \in 0..MaxPorts}}

WideConfigs ==
    {RawConfig(ports, entities, "", "", Undefined, deviceId, deviceName) :
        ports \in WidePortLists,
        entities \in {NoList, List(<<StringEntry("p2")>>)},
        deviceId \in {"", "dev1"},
        deviceName \in {"", "SW1"}}

\* configurations with marker sizes of every kind, with and without explicit ports
MarkerSizes == {Undefined, Null, Num(0), Num(-5), Num(30), Str("abc"), Str("20"), Str("")}

MarkerConfigs ==
    {RawConfig(ports, NoList, "", "", markerSize, "dev1", "") :
        ports \in {NoList, List(<<>>), List(<<StringEntry("p1")>>)},
        markerSize \in MarkerSizes}

-----------------------------------------------------------------------------
(* Initial state: the constructor *)

Init ==
    /\ variant \in {"dialog", "auto"}
    /\ config = NoConfig
    /\ hass = NoHass
    /\ dialogEntity = ""
    /\ needsAuto = FALSE
    /\ autoStarted = FALSE
    /\ output = Blank
    /\ discoveries = EmptyBag
    /\ pending = EmptyBag
    /\ lastEvent = Event("constructor", "")
    /\ startedSinceConfig = 0
    /\ firstPushDue = FALSE
    /\ latestPorts = <<>>

-----------------------------------------------------------------------------
(* Host pushes *)

\* faulty variant of SetConfigDialog: the stored configuration is dropped before
\* the argument is validated
SetConfigDialogClearing(raw) ==
    /\ variant = "dialog"
    /\ IF SetConfigThrowsDialog(raw)
       THEN /\ lastEvent' = ConfigEvent("setConfigThrew", SetConfigErrorDialog(raw), raw)
            /\ config' = NoConfig
            /\ UNCHANGED <<output, latestPorts>>
       ELSE /\ config' = StoredConfigDialog(raw)
            /\ output' = RenderDialog(config', hass, dialogEntity, output)
            /\ latestPorts' = config'.ports
            /\ lastEvent' = ConfigEvent("setConfig", "", raw)
    /\ UNCHANGED <<variant, hass, dialogEntity, needsAuto, autoStarted, discoveries,
                   pending, startedSinceConfig, firstPushDue>>

\* dialog variant: setConfig(config)
SetConfigDialog(raw) ==
    /\ variant = "dialog"
    /\ IF SetConfigThrowsDialog(raw)
       THEN /\ lastEvent' = ConfigEvent("setConfigThrew", SetConfigErrorDialog(raw), raw)
            /\ UNCHANGED <<config, output, latestPorts>>
       ELSE /\ config' = StoredConfigDialog(raw)
            /\ output' = RenderDialog(config', hass, dialogEntity, output)
            /\ latestPorts' = config'.ports
            /\ lastEvent' = ConfigEvent("setConfig", "", raw)
    /\ UNCHANGED <<variant, hass, dialogEntity, needsAuto, autoStarted, discoveries,
                   pending, startedSinceConfig, firstPushDue>>

\* history: the description input of the open dialog holds text that differs from
\* the description attribute the dialog was built from
UnsavedText ==
    output.dialog.open /\ output.dialog.input # StateOf(hass, output.dialog.entity).description

\* faulty variant of SetHassDialog: the dialog is closed when its entity left the snapshot
SetHassDialogClosing(h) ==
    /\ variant = "dialog"
    /\ hass' = h
    /\ dialogEntity' = IF StateOf(h, dialogEntity).present THEN dialogEntity ELSE ""
    /\ output' = RenderDialog(config, h, dialogEntity', output)
    /\ lastEvent' = Event("hass", IF UnsavedText THEN "typed" ELSE "")
    /\ UNCHANGED <<variant, config, needsAuto, autoStarted, discoveries, pending,
                   startedSinceConfig, firstPushDue, latestPorts>>

\* dialog variant: set hass(hass)
SetHassDialog(h) ==
    /\ variant = "dialog"
    /\ hass' = h
    /\ output' = RenderDialog(config, h, dialogEntity, output)
    /\ lastEvent' = Event("hass", IF UnsavedText THEN "typed" ELSE "")
    /\ UNCHANGED <<variant, config, dialogEntity, needsAuto, autoStarted, discoveries,
                   pending, startedSinceConfig, firstPushDue, latestPorts>>

\* faulty variant of LatchAfterConfig: setConfig leaves the latch as it is
LatchKept(started) == started

\* setConfig: this._autoStarted = false
LatchAfterConfig(started) == FALSE

\* history: the discoveries in flight were started under an older configuration
Supersede(ds) ==
    LET old(d) == [d EXCEPT !.superseded = TRUE]
        new(e) == [e EXCEPT !.superseded = FALSE]
    IN  [e \in {old(d) : d \in DOMAIN ds} |->
            (IF e \in DOMAIN ds THEN ds[e] ELSE 0)
            + (IF new(e) \in DOMAIN ds THEN ds[new(e)] ELSE 0)]

\* auto variant: setConfig(config)
SetConfigAuto(raw) ==
    /\ variant = "auto"
    /\ IF SetConfigThrowsAuto(raw)
       THEN /\ lastEvent' = ConfigEvent("setConfigThrew", SetConfigErrorAuto(raw), raw)
            /\ UNCHANGED <<config, needsAuto, autoStarted, output, discoveries,
                           startedSinceConfig, firstPushDue, latestPorts>>
       ELSE /\ config' = IF HasExplicitPorts(raw) THEN StoredConfigExplicit(raw)
                         ELSE StoredConfigDiscover(raw)
            /\ needsAuto' = ~HasExplicitPorts(raw)
            /\ autoStarted' = LatchAfterConfig(autoStarted)
            /\ output' = RenderAuto(config', hass)
            /\ discoveries' = Supersede(discoveries)
            /\ startedSinceConfig' = 0
            /\ firstPushDue' = AsksDiscovery(raw)
            /\ latestPorts' = config'.ports
            /\ lastEvent' = ConfigEvent("setConfig", "", raw)
    /\ UNCHANGED <<variant, hass, dialogEntity, pending>>

\* auto variant: set hass(hass)
SetHassAuto(h) ==
    /\ variant = "auto"
    /\ hass' = h
    /\ IF ShouldStartDiscovery(h, config, needsAuto, autoStarted)
       THEN /\ BagCardinality(discoveries) < MaxInFlight
            /\ autoStarted' = TRUE
            /\ discoveries' = discoveries (+) SetToBag({StartDiscovery(config)})
            /\ startedSinceConfig' = startedSinceConfig + 1
            /\ lastEvent' = DiscoveryEvent("hass", "discovery", <<>>, <<>>,
                                            StartDiscovery(config))
       ELSE /\ lastEvent' = Event("hass", "")
            /\ UNCHANGED <<autoStarted, discoveries, startedSinceConfig>>
    /\ output' = RenderAuto(config, h)
    /\ firstPushDue' = FALSE
    /\ UNCHANGED <<variant, config, dialogEntity, needsAuto, pending, latestPorts>>

-----------------------------------------------------------------------------
(* Completion of the discovery queries (auto variant) *)

\* the device registry answers: _findDeviceIdByName returns, _autoDiscoverPorts goes on
DeviceRegistryReply(d, devices) ==
    /\ BagIn(d, discoveries)
    /\ d.stage = "devices"
    /\ LET id == FindDeviceIdByName(devices, d.name)
           next == IF id = "" THEN [d EXCEPT !.stage = "resolved", !.list = <<>>]
                   ELSE [d EXCEPT !.stage = "entities", !.deviceId = id]
       IN  /\ discoveries' = (discoveries (-) SetToBag({d})) (+) SetToBag({next})
           /\ lastEvent' = DiscoveryEvent("devicesReply", "", devices, <<>>, next)
    /\ UNCHANGED <<variant, config, hass, dialogEntity, needsAuto, autoStarted, output,
                   pending, startedSinceConfig, firstPushDue, latestPorts>>

\* the entity registry answers: _autoDiscoverPorts computes its result
EntityRegistryReply(d, entities) ==
    /\ BagIn(d, discoveries)
    /\ d.stage = "entities"
    /\ LET next == [d EXCEPT !.stage = "resolved",
                             !.list = DiscoveredIds(d.deviceId, entities, hass)]
       IN  /\ discoveries' = (discoveries (-) SetToBag({d})) (+) SetToBag({next})
           /\ lastEvent' = DiscoveryEvent("entitiesReply", "", <<>>, entities, next)
    /\ UNCHANGED <<variant, config, hass, dialogEntity, needsAuto, autoStarted, output,
                   pending, startedSinceConfig, firstPushDue, latestPorts>>

\* a registry query fails: _autoDiscoverPorts rejects, .catch(() => {}) swallows it
RegistryQueryFails(d) ==
    /\ BagIn(d, discoveries)
    /\ d.stage \in {"devices", "entities"}
    /\ discoveries' = discoveries (-) SetToBag({d})
    /\ lastEvent' = DiscoveryEvent("discoveryFailed", "", <<>>, <<>>, d)
    /\ UNCHANGED <<variant, config, hass, dialogEntity, needsAuto, autoStarted, output,
                   pending, startedSinceConfig, firstPushDue, latestPorts>>

\* the .then callback of set hass runs with the result of _autoDiscoverPorts
DiscoveryThen(d) ==
    /\ BagIn(d, discoveries)
    /\ d.stage = "resolved"
    /\ IF ThenApplies(d)
       THEN /\ config' = [config EXCEPT !.ports = PortsFromIds(d.list)]
            /\ needsAuto' = FALSE
            /\ output' = RenderAuto(config', hass)
       ELSE UNCHANGED <<config, needsAuto, output>>
    /\ latestPorts' = IF ThenApplies(d) /\ ~d.superseded THEN PortsFromIds(d.list)
                      ELSE latestPorts
    /\ discoveries' = discoveries (-) SetToBag({d})
    /\ lastEvent' = DiscoveryEvent(IF d.superseded THEN "staleDiscoveryThen"
                                    ELSE "discoveryThen", "", <<>>, <<>>, d)
    /\ UNCHANGED <<variant, hass, dialogEntity, autoStarted, pending, startedSinceConfig,
                   firstPushDue>>

-----------------------------------------------------------------------------
(* The operator's clicks *)

\* faulty variant of OpenDialog: the dialog state is set and no render follows
OpenDialogNoRender(entityId) ==
    /\ dialogEntity' = entityId
    /\ output' = output

\* _openDialog(entityId)
OpenDialog(entityId) ==
    /\ dialogEntity' = entityId
    /\ output' = RenderDialog(config, hass, dialogEntity', output)

\* _closeDialog()
CloseDialog ==
    /\ dialogEntity' = ""
    /\ output' = RenderDialog(config, hass, dialogEntity', output)

\* dialog variant: a click on the i-th displayed marker or tile
ClickPort(i) ==
    /\ variant = "dialog"
    /\ output.kind \in {"image", "grid"}
    /\ i \in 1..Len(output.ports)
    /\ OpenDialog(output.ports[i].entityId)
    /\ lastEvent' = Event("clickPort", output.ports[i].entityId)
    /\ UNCHANGED <<variant, config, hass, needsAuto, autoStarted, discoveries, pending,
                   startedSinceConfig, firstPushDue, latestPorts>>

\* the operator edits the text of the dialog's description input
TypeDescription(text) ==
    /\ output.dialog.open
    /\ text # output.dialog.input
    /\ output' = [output EXCEPT !.dialog.input = text]
    /\ lastEvent' = Event("type", output.dialog.entity)
    /\ UNCHANGED <<variant, config, hass, dialogEntity, needsAuto, autoStarted,
                   discoveries, pending, startedSinceConfig, firstPushDue, latestPorts>>

\* faulty variant of ClickDialogToggle: the dialog is closed before the await
ClickDialogToggleClosing ==
    /\ output.dialog.open
    /\ BagCardinality(pending) < MaxPending
    /\ pending' = pending (+) SetToBag({TogglePortCall(output.dialog.entity, output.dialog.turnOn)})
    /\ CloseDialog
    /\ lastEvent' = Event("clickToggle", output.dialog.entity)
    /\ UNCHANGED <<variant, config, hass, needsAuto, autoStarted,
                   discoveries, startedSinceConfig, firstPushDue, latestPorts>>

\* a click on the dialog's toggle button, up to the await of _togglePort
ClickDialogToggle ==
    /\ output.dialog.open
    /\ BagCardinality(pending) < MaxPending
    /\ pending' = pending (+) SetToBag({TogglePortCall(output.dialog.entity, output.dialog.turnOn)})
    /\ lastEvent' = Event("clickToggle", output.dialog.entity)
    /\ UNCHANGED <<variant, config, hass, dialogEntity, needsAuto, autoStarted, output,
                   discoveries, startedSinceConfig, firstPushDue, latestPorts>>

\* a click on the dialog's save button, up to the await of _setDescription
ClickDialogSave ==
    /\ output.dialog.open
    /\ BagCardinality(pending) < MaxPending
    /\ pending' = pending (+) SetToBag({SetDescriptionCall(output.dialog.entity, output.dialog.input)})
    /\ lastEvent' = Event("clickSave", output.dialog.entity)
    /\ UNCHANGED <<variant, config, hass, dialogEntity, needsAuto, autoStarted, output,
                   discoveries, startedSinceConfig, firstPushDue, latestPorts>>

\* a click on the dialog's cancel button
ClickDialogCancel ==
    /\ output.dialog.open
    /\ CloseDialog
    /\ lastEvent' = Event("clickCancel", output.dialog.entity)
    /\ UNCHANGED <<variant, config, hass, needsAuto, autoStarted, discoveries, pending,
                   startedSinceConfig, firstPushDue, latestPorts>>

\* faulty variant of BackdropCloses: the target of the click is not looked at
BackdropClosesAlways(target) == TRUE

\* the backdrop's handler closes the dialog: event.target === backdrop
BackdropCloses(target) == target = "backdrop"

\* a click that reaches the backdrop's handler: on the backdrop itself, or bubbling
\* up from the dialog content
ClickBackdrop(target) ==
    /\ output.dialog.open
    /\ IF BackdropCloses(target)
       THEN CloseDialog
       ELSE UNCHANGED <<dialogEntity, output>>
    /\ lastEvent' = Event(IF target = "backdrop" THEN "clickBackdrop" ELSE "clickContent",
                          output.dialog.entity)
    /\ UNCHANGED <<variant, config, hass, needsAuto, autoStarted, discoveries, pending,
                   startedSinceConfig, firstPushDue, latestPorts>>

\* auto variant: a click on the i-th marker or toggle button: _toggle(entity)
ClickToggle(i) ==
    /\ variant = "auto"
    /\ output.kind \in {"image", "grid"}
    /\ i \in 1..Len(output.ports)
    /\ BagCardinality(pending) < MaxPending
    /\ pending' = pending (+) SetToBag({ToggleCall(hass, output.ports[i].entityId)})
    /\ lastEvent' = Event("clickPort", output.ports[i].entityId)
    /\ UNCHANGED <<variant, config, hass, dialogEntity, needsAuto, autoStarted, output,
                   discoveries, startedSinceConfig, firstPushDue, latestPorts>>

-----------------------------------------------------------------------------
(* Completion of a service invocation *)

\* faulty variant of CallSucceeds: the handler closes the dialog only when it is
\* still the one the invocation was issued from
CallSucceedsOwnDialog(c) ==
    /\ BagIn(c, pending)
    /\ pending' = pending (-) SetToBag({c})
    /\ IF c.closes /\ dialogEntity = c.entity_id
       THEN CloseDialog
       ELSE UNCHANGED <<dialogEntity, output>>
    /\ lastEvent' = CompletionEvent(c.entity_id, IF c.closes THEN dialogEntity ELSE "")
    /\ UNCHANGED <<variant, config, hass, needsAuto, autoStarted, discoveries,
                   startedSinceConfig, firstPushDue, latestPorts>>

\* callService resolves: an awaiting dialog handler goes on to _closeDialog()
CallSucceeds(c) ==
    /\ BagIn(c, pending)
    /\ pending' = pending (-) SetToBag({c})
    /\ IF c.closes
       THEN CloseDialog
       ELSE UNCHANGED <<dialogEntity, output>>
    /\ lastEvent' = CompletionEvent(c.entity_id, IF c.closes THEN dialogEntity ELSE "")
    /\ UNCHANGED <<variant, config, hass, needsAuto, autoStarted, discoveries,
                   startedSinceConfig, firstPushDue, latestPorts>>

\* faulty variant of CallFails: the rejected invocation is issued again
CallFailsRetrying(c) ==
    /\ BagIn(c, pending)
    /\ pending' = pending
    /\ lastEvent' = Event("callFailed", c.entity_id)
    /\ UNCHANGED <<variant, config, hass, dialogEntity, needsAuto, autoStarted, output,
                   discoveries, startedSinceConfig, firstPushDue, latestPorts>>

\* callService rejects: the await throws, the rest of the handler does not run
CallFails(c) ==
    /\ BagIn(c, pending)
    /\ pending' = pending (-) SetToBag({c})
    /\ lastEvent' = Event("callFailed", c.entity_id)
    /\ UNCHANGED <<variant, config, hass, dialogEntity, needsAuto, autoStarted, output,
                   discoveries, startedSinceConfig, firstPushDue, latestPorts>>

-----------------------------------------------------------------------------

Next ==
    \/ \E raw \in HostConfigs : SetConfigDialog(raw)
    \/ \E h \in HostSnapshots : SetHassDialog(h)
    \/ \E raw \in HostConfigs : SetConfigAuto(raw)
    \/ \E h \in HostSnapshots : SetHassAuto(h)
    \/ \E d \in BagToSet(discoveries), devices \in DeviceRegistries :
          DeviceRegistryReply(d, devices)
    \/ \E d \in BagToSet(discoveries), entities \in EntityRegistries :
          EntityRegistryReply(d, entities)
    \/ \E d \in BagToSet(discoveries) : RegistryQueryFails(d)
    \/ \E d \in BagToSet(discoveries) : DiscoveryThen(d)
    \/ \E i \in 1..Len(output.ports) : ClickPort(i)
    \/ \E text \in Texts : TypeDescription(text)
    \/ ClickDialogToggle
    \/ ClickDialogSave
    \/ ClickDialogCancel
    \/ \E target \in {"backdrop", "dialog"} : ClickBackdrop(target)
    \/ \E i \in 1..Len(output.ports) : ClickToggle(i)
    \/ \E c \in BagToSet(pending) : CallSucceeds(c)
    \/ \E c \in BagToSet(pending) : CallFails(c)

Spec == Init /\ [][Next]_vars


\* configuration and state pushes only, drawn from the richer inputs
RenderNext ==
    \/ \E raw \in RichConfigs : SetConfigDialog(raw)
    \/ \E h \in RichSnapshots : SetHassDialog(h)
    \/ \E raw \in RichConfigs : SetConfigAuto(raw)
    \/ \E h \in RichSnapshots : SetHassAuto(h)
    \/ \E d \in BagToSet(discoveries) : DiscoveryThen(d)

RenderSpec == Init /\ [][RenderNext]_vars


\* the inputs of StatusSpec: a grid and an image configuration, and snapshots with
\* state strings of every kind
StatusConfigs ==
    { Plain(List(<<StringEntry("p1"), StringEntry("p2")>>), "", "", "", ""),
      Plain(List(<<ObjectEntry("p1", Num(10), Num(20), Undefined),
                   ObjectEntry("p2", Num(20), Num(10), Undefined)>>),
            "image", "bg.png", "", "") }

StatusSnapshots ==
    {Snapshot(a, b) : a \in {Absent, P1On, P1Unavailable, P1Upper},
                      b \in {Absent, P2Off, P2NoState}}

\* pushes of those configurations and snapshots
StatusNext ==
    \/ \E raw \in StatusConfigs : SetConfigDialog(raw)
    \/ \E h \in StatusSnapshots : SetHassDialog(h)
    \/ \E raw \in StatusConfigs : SetConfigAuto(raw)
    \/ \E h \in StatusSnapshots : SetHassAuto(h)

StatusSpec == Init /\ [][StatusNext]_vars

\* the inputs of DiscoverySpec: configurations that ask for discovery, snapshots
\* with Name and Index attributes of every kind, and registry answers with foreign,
\* duplicated and ambiguous entries
Named(name, index) == EntityState("on", "", "", name, index)

Snapshot3(a, b, c) ==
    Hass([e \in EntityIds |-> IF e = "p1" THEN a ELSE IF e = "p2" THEN b ELSE c])

DiscoveryConfigs ==
    { Plain(NoList, "", "", "", "SW1"),
      Plain(List(<<>>), "", "", "dev1", "SW1"),
      Plain(NoList, "", "", "", "") }

DiscoverySnapshots ==
    { Snapshot3(Absent, Absent, Absent),
      Snapshot3(Named("Gi1", Num(3)), Named("Gi2", Num(1)), Named("Gi3", Num(2))),
      Snapshot3(Named("Gi1", Undefined), Named("", Undefined), Named("Gi3", Undefined)),
      Snapshot3(Named("Gi1", Num(5)), Named("Gi2", Undefined), Named("Gi3", Num(1))),
      Snapshot3(Named("cpu", Num(1)), Named("CPU", Undefined), Named("Gi3", Num(2))),
      Snapshot3(Named("Cpu", Num(2)), Named("CPU1", Num(1)), Named("cPU", Undefined)),
      Snapshot3(Named("Gi1", Str("10")), Named("Gi2", Num(10)), Absent) }

DiscoveryDeviceRegistries ==
    { <<Device("dev2", "Core", ""), Device("dev1", "sw-1", "SW1")>>,
      <<Device("dev2", "SW1", ""), Device("dev1", "sw-1", "SW1")>>,
      <<Device("dev1", "sw1", "Sw1")>> }

DiscoveryEntityRegistries ==
    { <<>>,
      <<RegistryEntity("p3", "dev1", Platform, "switch"),
        RegistryEntity("p1", "dev1", Platform, "switch"),
        RegistryEntity("p2", "dev1", Platform, "switch")>>,
      <<RegistryEntity("p2", "dev1", Platform, "switch"),
        RegistryEntity("p1", "dev2", Platform, "switch"),
        RegistryEntity("p3", "dev1", "switch_manager", "switch"),
        RegistryEntity("p1", "dev1", Platform, "sensor"),
        RegistryEntity("p2", "dev1", Platform, "switch")>> }

\* the discovery card with those inputs
DiscoveryNext ==
    \/ \E raw \in DiscoveryConfigs : SetConfigAuto(raw)
    \/ \E h \in DiscoverySnapshots : SetHassAuto(h)
    \/ \E d \in BagToSet(discoveries), devices \in DiscoveryDeviceRegistries :
          DeviceRegistryReply(d, devices)
    \/ \E d \in BagToSet(discoveries), entities \in DiscoveryEntityRegistries :
          EntityRegistryReply(d, entities)
    \/ \E d \in BagToSet(discoveries) : RegistryQueryFails(d)
    \/ \E d \in BagToSet(discoveries) : DiscoveryThen(d)

DiscoverySpec == Init /\ [][DiscoveryNext]_vars

\* configuration pushes only, drawn from the wide configurations and the marker sizes
ConfigNext ==
    \/ \E raw \in WideConfigs \cup MarkerConfigs : SetConfigDialog(raw)
    \/ \E raw \in WideConfigs \cup MarkerConfigs : SetConfigAuto(raw)

ConfigSpec == Init /\ [][ConfigNext]_vars

-----------------------------------------------------------------------------
(* Properties *)

\* a render has run with a configuration and a snapshot
Rendered == config.set /\ hass.set

\* the keys of the snapshot
SnapshotKeys(hs) == {e \in DOMAIN hs.states : hs.states[e].present}

\* the positions of the configured ports whose entity has a state in the snapshot
PresentIdx == {i \in 1..Len(config.ports) : config.ports[i].entity \in SnapshotKeys(hass)}

\* the position in the output of the configured port at position i
RankOf(i) == Cardinality({j \in PresentIdx : j <= i})

\* C1: between two consecutive configuration pushes at most one discovery is
\* started, whatever became of the first one (outstanding, succeeded, empty, failed).
C1_DiscoveryLatch == startedSinceConfig <= 1

\* C1 witness: a state push arrives after the one discovery of this configuration
\* ended without ports, and starts nothing
C1_Witness ==
    /\ lastEvent = Event("hass", "")
    /\ startedSinceConfig = 1
    /\ needsAuto
    /\ discoveries = EmptyBag

\* C2 (as claimed): the completion of a discovery started under an older
\* configuration leaves the stored port list and the discovery flag as the newer
\* setConfig left them.
C2_SupersededIgnored ==
    [][lastEvent'.op = "staleDiscoveryThen" => config' = config /\ needsAuto' = needsAuto]_vars

\* C3 (as claimed): when the service invocation of a confirmed toggle or description
\* edit completes, successfully or not, the dialog is Closed.
C3_ClosedOnCompletion ==
    [][variant = "dialog" /\ lastEvent'.op \in {"callSucceeded", "callFailed"}
          => dialogEntity' = "" /\ ~output'.dialog.open]_vars

\* C4: in every render each resolved port's entity is a key of the snapshot, a
\* configured port whose entity is absent from the snapshot is not in the output,
\* and the render completes.
C4_DropRule ==
    Rendered =>
        /\ output.kind \in {"image", "grid", "empty"}
        /\ \A i \in 1..Len(output.ports) : output.ports[i].entityId \in SnapshotKeys(hass)
        /\ \A j \in 1..Len(config.ports) :
              config.ports[j].entity \notin SnapshotKeys(hass)
                  => \A i \in 1..Len(output.ports) :
                        output.ports[i].entityId # config.ports[j].entity

\* C4 witness: a render that shows one configured port and drops another
C4_Witness ==
    /\ Rendered
    /\ Len(output.ports) > 0
    /\ \E j \in 1..Len(config.ports) : config.ports[j].entity \notin SnapshotKeys(hass)

\* the x, y and label of the configured port at position i, as stored
ConfiguredCoords(i) == <<config.ports[i].x, config.ports[i].y, config.ports[i].label>>

\* Number(x), Number(y) of the configured port at position i, and no label
NumberCoords(i) == <<ToNumber(config.ports[i].x), ToNumber(config.ports[i].y), Undefined>>

\* the resolved ports are the configured ports with a state, in their order, each
\* with the live state and either the stored coordinates and label or their numbers
ReconciledWith(stored) ==
    /\ Len(output.ports) = Cardinality(PresentIdx)
    /\ \A i \in PresentIdx :
          LET r == output.ports[RankOf(i)]
          IN  /\ r.entityId = config.ports[i].entity
              /\ r.stateObj = hass.states[config.ports[i].entity]
              /\ <<r.x, r.y, r.label>> = IF stored THEN ConfiguredCoords(i) ELSE NumberCoords(i)

C6_LayoutInvariant ==
    Rendered =>
        /\ output.kind = "image" =>
              /\ config.layout = "image"
              /\ config.image # ""
              /\ \A i \in 1..Len(output.ports) :
                    IsFinite(output.ports[i].x) /\ IsFinite(output.ports[i].y)
        /\ (\E i \in 1..Len(output.ports) :
               ~IsFinite(output.ports[i].x) \/ ~IsFinite(output.ports[i].y))
              => output.kind = "grid"

\* C6 witness: the stored configuration asks for image layout with an image, a
\* resolved port lacks a finite coordinate, and the render fell back to grid
C6_Witness ==
    /\ Rendered
    /\ config.layout = "image"
    /\ config.image # ""
    /\ output.kind = "grid"

\* C7 (as claimed): a render whose resolved port list is empty shows the empty-state
\* message, for every stored layout.
C7_EmptyState == Rendered /\ Len(output.ports) = 0 => output.kind = "empty"

\* C8: neither a configuration push nor a state push changes the dialog state.
C8_PushKeepsDialog ==
    [][lastEvent'.op \in {"setConfig", "setConfigThrew", "hass"}
          => dialogEntity' = dialogEntity]_vars

\* C8 witness: after a push the dialog is still open for an entity that is neither
\* in the snapshot nor among the configured ports
C8_Witness ==
    /\ lastEvent.op \in {"setConfig", "hass"}
    /\ dialogEntity # ""
    /\ output.dialog.open
    /\ dialogEntity \notin SnapshotKeys(hass)
    /\ \A i \in 1..Len(config.ports) : config.ports[i].entity # dialogEntity

\* C9 (as claimed): a click on a displayed port X opens the dialog for X and does
\* nothing else: no service invocation, stored configuration and snapshot unchanged.
C9_ClickOpensDialog ==
    [][lastEvent'.op = "clickPort"
          => /\ dialogEntity' = lastEvent'.arg
             /\ pending' = pending
             /\ config' = config
             /\ hass' = hass]_vars

\* C10: cancel, or a click on the backdrop itself, closes the dialog and issues no
\* service invocation; a click inside the dialog content leaves it open for X.
C10_CancelAndBackdrop ==
    [][/\ lastEvent'.op \in {"clickCancel", "clickBackdrop"}
          => dialogEntity' = "" /\ ~output'.dialog.open /\ pending' = pending
       /\ lastEvent'.op = "clickContent"
          => /\ dialogEntity # ""
             /\ dialogEntity' = dialogEntity
             /\ output'.dialog.open
             /\ pending' = pending]_vars

\* C10 witness: the open dialog was closed by a click on the backdrop itself
C10_Witness ==
    /\ lastEvent.op = "clickBackdrop"
    /\ dialogEntity = ""
    /\ ~output.dialog.open

\* C11: when the dialog is open for X and a state push delivers a snapshot without
\* X, the render of that push completes, shows the card and the dialog, and the
\* dialog's title is the bare identifier X.
C11_DialogResilience ==
    [][(/\ variant = "dialog"
        /\ lastEvent'.op = "hass"
        /\ dialogEntity # ""
        /\ ~StateOf(hass', dialogEntity).present)
          => /\ output'.kind \in {"image", "grid", "empty"}
             /\ output'.dialog.open
             /\ output'.dialog.entity = dialogEntity
             /\ output'.dialog.title = dialogEntity]_vars

\* C11 witness: the dialog was open for p1 under its friendly name, a push without
\* p1 arrived, and the dialog is shown under the bare identifier
C11_Witness ==
    /\ variant = "dialog"
    /\ lastEvent.op = "hass"
    /\ dialogEntity = "p1"
    /\ ~StateOf(hass, "p1").present
    /\ output.dialog.open
    /\ output.dialog.title = "p1"

\* C12 (as claimed): while the dialog is open for X and X is absent from the
\* snapshot, a click on the toggle button issues no turn_on or turn_off invocation.
C12_ToggleUnavailable ==
    [][(lastEvent'.op = "clickToggle" /\ ~StateOf(hass, dialogEntity).present)
          => pending' = pending]_vars

\* C13: a configuration whose non-empty port list holds, at any position, a
\* non-string entry without an entity identifier is rejected: setConfig throws and
\* stores nothing.
C13_EntryRejected ==
    [][(~lastEvent'.input.noPorts /\ lastEvent'.input.lacksEntity)
          => /\ lastEvent'.op = "setConfigThrew"
             /\ lastEvent'.arg # ""
             /\ config' = config
             /\ output' = output]_vars

\* C13 witness: a list with such an entry was rejected and the configuration
\* accepted before it is still the stored one
C13_Witness ==
    /\ lastEvent.op = "setConfigThrew"
    /\ ~lastEvent.input.noPorts
    /\ lastEvent.input.lacksEntity
    /\ config.set
    /\ Len(config.ports) = MaxPorts

\* C14 (as claimed): a configuration with a missing or empty port list and neither
\* device_id nor device_name is a hard error: setConfig throws and stores nothing.
C14_NoPortsNoDevice ==
    [][(lastEvent'.input.noPorts /\ ~lastEvent'.input.device)
          => lastEvent'.op = "setConfigThrew" /\ config' = config]_vars

\* C15 (as claimed): the discovery card accepts a configuration with an empty port list
\* and a device_id or device_name, stores an empty port list with the discovery flag
\* set, and the first state push after it starts exactly one discovery.
C15_DiscoveryConfig ==
    [][/\ (variant = "auto" /\ lastEvent'.input.noPorts /\ lastEvent'.input.device)
          => /\ lastEvent'.op = "setConfig"
             /\ config'.set
             /\ config'.ports = <<>>
             /\ needsAuto'
       /\ (firstPushDue /\ lastEvent'.op = "hass")
          => /\ lastEvent'.arg = "discovery"
             /\ startedSinceConfig' = 1]_vars

\* without a discovery of an older configuration completing in between, the first
\* state push after such a configuration starts exactly one discovery
FirstPushStartsDiscovery ==
    [][(firstPushDue /\ needsAuto /\ lastEvent'.op = "hass")
          => lastEvent'.arg = "discovery" /\ startedSinceConfig' = 1]_vars

\* C17 (as claimed): after the discovery of the current configuration failed or
\* resolved no device, the stored port list is empty and the card shows the
\* empty-state message.
C17_FailureSwallowed ==
    (/\ variant = "auto"
     /\ Rendered
     /\ needsAuto
     /\ autoStarted
     /\ discoveries = EmptyBag)
        => Len(config.ports) = 0 /\ output.kind = "empty"

\* the status of an entity state: the exact string "on" gives on, the exact string
\* "off" gives off, anything else unknown
StatusOf(stateObj) ==
    CASE stateObj.state = "on" -> "on"
      [] stateObj.state = "off" -> "off"
      [] OTHER -> "unknown"

\* C16 (as claimed): in every render, grid or image, each displayed port has the
\* status on for the state "on", off for "off" and unknown for anything else.
C16_StatusClassification ==
    Rendered =>
        /\ Len(output.status) = Len(output.ports)
        /\ \A i \in 1..Len(output.ports) :
              output.status[i] = StatusOf(output.ports[i].stateObj)

\* the invocation: its service and its data, without the handler that awaits it
Invocation(c) ==
    [domain |-> c.domain, service |-> c.service, entity_id |-> c.entity_id,
     description |-> c.description]

\* the invocations issued by a step
Issued == {Invocation(c) : c \in {d \in BagToSet(pending') : CopiesIn(d, pending') > CopiesIn(d, pending)}}

\* C18: a click on the toggle button of the dialog open for X issues exactly one
\* invocation, with entity_id X: switch.turn_off when X is "on" in the snapshot of
\* the last render, switch.turn_on otherwise.
C18_ToggleInvocation ==
    [][(variant = "dialog" /\ lastEvent'.op = "clickToggle")
          => /\ dialogEntity # ""
             /\ BagCardinality(pending') = BagCardinality(pending) + 1
             /\ Issued =
                   {[domain |-> "switch",
                     service |-> IF StateOf(hass, dialogEntity).present
                                    /\ StateOf(hass, dialogEntity).state = "on"
                                 THEN "turn_off" ELSE "turn_on",
                     entity_id |-> dialogEntity,
                     description |-> ""]}]_vars

\* C18 witness: a toggle click turned off a port that is on
C18_Witness ==
    /\ variant = "dialog"
    /\ lastEvent.op = "clickToggle"
    /\ StateOf(hass, dialogEntity).state = "on"
    /\ \E c \in BagToSet(pending) : c.service = "turn_off" /\ c.entity_id = dialogEntity

\* C19 (as claimed): a click on the save button of the dialog open for X issues
\* exactly one invocation of snmp_switch_manager.set_port_description with
\* entity_id X and the text of the dialog's input, and no switch invocation.
C19_DescriptionInvocation ==
    [][(variant = "dialog" /\ lastEvent'.op = "clickSave")
          => /\ BagCardinality(pending') = BagCardinality(pending) + 1
             /\ Issued =
                   {[domain |-> "snmp_switch_manager",
                     service |-> "set_port_description",
                     entity_id |-> dialogEntity,
                     description |-> output.dialog.input]}]_vars

\* the save click issues exactly one set_port_description invocation for X with
\* the text of the input, in the domain the card names
SaveIssuesOneCall ==
    [][(variant = "dialog" /\ lastEvent'.op = "clickSave")
          => /\ BagCardinality(pending') = BagCardinality(pending) + 1
             /\ \E c \in Issued :
                   /\ Issued = {c}
                   /\ c.service = "set_port_description"
                   /\ c.entity_id = dialogEntity
                   /\ c.description = output.dialog.input]_vars

LatestReconciled ==
    IF variant = "dialog" THEN ReconcileDialog(latestPorts, hass)
    ELSE ReconcileAuto(latestPorts, hass)

\* C24 (as claimed): after any pushes the displayed ports are the reconciliation of
\* the most recently accepted configuration's port list, or of its own discovery
\* result, with the most recently pushed snapshot.
C24_LatestWins == Rendered => output.ports = LatestReconciled

\* in the dialog card the displayed ports are always those of the latest
\* configuration and snapshot
LatestWinsDialog == (variant = "dialog" /\ Rendered) => output.ports = LatestReconciled

-----------------------------------------------------------------------------
(* Properties of a discovery, read off the step at which the entity registry
   answered: the answer, the resolved device and the result are in lastEvent,
   the snapshot joined against is hass *)

Range(seq) == {seq[i] : i \in DOMAIN seq}

\* the entity registry has just answered a discovery
Joined == lastEvent.op = "entitiesReply"

\* the result of that discovery
Result == lastEvent.after.list

\* the spellings of CPU in the snapshots
CpuNames == {"cpu", "Cpu", "cPU", "CPU"}

\* the registry entry is a switch of the integration on the resolved device
Eligible(e) ==
    /\ e.device_id = lastEvent.after.deviceId
    /\ e.platform = "snmp_switch_manager"
    /\ e.domain = "switch"

\* C21: an entity whose Name attribute is CPU in any letter case is never in a
\* discovery result, and an eligible entity with a state and any other Name (or
\* none) is in it.
C21_CpuExcluded ==
    Joined =>
        /\ \A id \in Range(Result) : hass.states[id].Name \notin CpuNames
        /\ \A i \in DOMAIN lastEvent.entities :
              LET e == lastEvent.entities[i]
              IN  (/\ Eligible(e)
                   /\ hass.states[e.entity_id].present
                   /\ hass.states[e.entity_id].Name \notin CpuNames)
                      => e.entity_id \in Range(Result)

\* C21 witness: a discovery dropped the entities named Cpu and cPU and kept the
\* one named CPU1
C21_Witness ==
    /\ Joined
    /\ hass.states["p1"].Name = "Cpu"
    /\ hass.states["p3"].Name = "cPU"
    /\ Result = <<"p2">>

\* the numeric Index of an entity in the snapshot
IndexOf(id) == ToNumber(hass.states[id].Index)

\* the position of the first registry entry of an identifier
FirstEntry(id) ==
    CHOOSE i \in DOMAIN lastEvent.entities :
        /\ lastEvent.entities[i].entity_id = id
        /\ \A j \in DOMAIN lastEvent.entities :
              lastEvent.entities[j].entity_id = id => i <= j

\* C22: when every candidate has a finite numeric Index the result is in ascending
\* Index order, candidates with equal Index in registry order; when none has one the
\* result is in lexical order of identifier; so the result is determined by the
\* registry answer and the snapshot.
C22_DiscoveryOrder ==
    Joined =>
        /\ (\A id \in Range(Result) : IsFinite(IndexOf(id)))
              => \A i, j \in DOMAIN Result :
                    i < j => \/ IndexOf(Result[i]).n < IndexOf(Result[j]).n
                             \/ /\ IndexOf(Result[i]).n = IndexOf(Result[j]).n
                                /\ FirstEntry(Result[i]) <= FirstEntry(Result[j])
        /\ (\A id \in Range(Result) : ~IsFinite(IndexOf(id)))
              => \A i, j \in DOMAIN Result : i < j => IdRank(Result[i]) <= IdRank(Result[j])

\* C22 witness: entities with Index 3, 1, 2 came out in the order 1, 2, 3
C22_Witness ==
    /\ Joined
    /\ Result = <<"p2", "p3", "p1">>
    /\ IndexOf("p2") = Num(1) /\ IndexOf("p3") = Num(2) /\ IndexOf("p1") = Num(3)

\* the candidates of the result as the comparator sees them
ResultCandidates == {[id |-> id, st |-> hass.states[id]] : id \in Range(Result)}

\* C23 (as claimed): on the candidates of any discovery the comparator is
\* antisymmetric and transitive, so it orders no three candidates in a cycle.
C23_TotalOrder ==
    Joined =>
        \A a, b, c \in ResultCandidates :
            /\ Compare(a, b) < 0 => Compare(b, a) > 0
            /\ (Compare(a, b) < 0 /\ Compare(b, c) < 0) => Compare(a, c) < 0

\* the comparator is antisymmetric
ComparatorAntisymmetric ==
    Joined => \A a, b \in ResultCandidates : Compare(a, b) < 0 => Compare(b, a) > 0

\* how often an identifier is in a sequence of identifiers
Occurrences(seq, id) == Cardinality({i \in DOMAIN seq : seq[i] = id})

\* C29: every identifier of a discovery result is that of a registry entry on the
\* resolved device, of the integration's platform and of the switch domain, and has
\* a state in the snapshot; it is in the result no more often than the registry
\* lists it.
C29_ResultMembers ==
    Joined =>
        \A id \in Range(Result) :
            /\ \E i \in DOMAIN lastEvent.entities :
                  lastEvent.entities[i].entity_id = id /\ Eligible(lastEvent.entities[i])
            /\ hass.states[id].present
            /\ Occurrences(Result, id)
                  <= Cardinality({i \in DOMAIN lastEvent.entities :
                                    lastEvent.entities[i].entity_id = id})

\* C29 witness: from a registry with entries of another device, platform and domain
\* only the twice-listed switch of the resolved device came out, twice
C29_Witness ==
    /\ Joined
    /\ Len(lastEvent.entities) = 5
    /\ lastEvent.after.deviceId = "dev1"
    /\ hass.states["p1"].present /\ hass.states["p3"].present
    /\ Result = <<"p2", "p2">>

\* the positions of the devices of a registry answer that carry the name
Matches(devices, name) ==
    {i \in DOMAIN devices : devices[i].name = name \/ devices[i].name_by_user = name}

\* C30: with device_id configured a discovery goes straight to the entity registry
\* with that id; with only device_name it asks the device registry and takes the
\* first device whose name or user-assigned name is device_name; when no device
\* resolves it ends with the empty result and the entity registry is not asked.
C30_DeviceResolution ==
    /\ (lastEvent.op = "hass" /\ lastEvent.arg = "discovery") =>
          LET d == lastEvent.after
          IN  /\ config.device_id # ""
                    => d.stage = "entities" /\ d.deviceId = config.device_id
              /\ (config.device_id = "" /\ config.device_name # "")
                    => d.stage = "devices" /\ d.name = config.device_name
              /\ (config.device_id = "" /\ config.device_name = "")
                    => d.stage = "resolved" /\ d.list = <<>>
    /\ lastEvent.op = "devicesReply" =>
          LET d == lastEvent.after
              hits == Matches(lastEvent.devices, d.name)
          IN  /\ hits # {}
                    => /\ d.stage = "entities"
                       /\ \E i \in hits : /\ \A j \in hits : i <= j
                                          /\ d.deviceId = lastEvent.devices[i].id
              /\ hits = {} => d.stage = "resolved" /\ d.list = <<>>

\* C30 witness: two devices carried the name and the first one was taken
C30_Witness ==
    /\ lastEvent.op = "devicesReply"
    /\ Cardinality(Matches(lastEvent.devices, lastEvent.after.name)) = 2
    /\ lastEvent.after.deviceId = "dev2"
    /\ lastEvent.after.stage = "entities"

-----------------------------------------------------------------------------
(* Properties of setConfig, read off the step at which it returned or threw *)

\* setConfig has just accepted its argument
Accepted == lastEvent.op = "setConfig"

\* the marker_size of the accepted argument is missing, non-numeric, zero or negative
UnusableMarkerSize ==
    lastEvent.raw.marker_size \in {Undefined, Null, Num(0), Num(-5), Str("abc"), Str("")}

\* C25 (as claimed): every accepted configuration, with explicit ports or with an
\* empty port list, stores a finite marker size greater than 0, and 26 when
\* marker_size is missing, non-numeric, zero or negative.
C25_MarkerSizeFallback ==
    Accepted =>
        /\ config.marker_size.t = "number"
        /\ config.marker_size.n > 0
        /\ UnusableMarkerSize => config.marker_size = Num(26)

\* with explicit ports the stored marker size is finite, positive, and 26 by default
MarkerSizeFallbackExplicit ==
    (Accepted /\ Len(config.ports) > 0) =>
        /\ config.marker_size.t = "number"
        /\ config.marker_size.n > 0
        /\ UnusableMarkerSize => config.marker_size = Num(26)

\* the list setConfig is to read: ports when it is present, entities otherwise
NamedList(raw) == IF raw.ports.present THEN raw.ports.items ELSE raw.entities.items

\* the entity identifier a raw entry names
EntityOf(entry) == entry.entity

\* C26: the stored port list is made from the field ports when it is present and
\* from entities only when ports is absent; an empty ports next to a filled entities
\* counts as no port list (the explicit-ports card throws, the discovery card
\* stores no ports and will discover).
C26_PortsAliasing ==
    /\ Accepted =>
          /\ Len(config.ports) = Len(NamedList(lastEvent.raw))
          /\ \A i \in DOMAIN config.ports :
                config.ports[i].entity = EntityOf(NamedList(lastEvent.raw)[i])
    /\ (lastEvent.op \in {"setConfig", "setConfigThrew"} /\ lastEvent.input.ports = "empty") =>
          IF variant = "dialog"
          THEN lastEvent.arg = "You must provide a list of port switch entities."
          ELSE Accepted /\ config.ports = <<>> /\ needsAuto
    /\ (lastEvent.op = "setConfigThrew"
            /\ lastEvent.arg = "You must provide a list of port switch entities.") =>
          \/ lastEvent.input.ports = "empty"
          \/ lastEvent.input.ports = "absent" /\ lastEvent.input.entities # "entries"

\* C26 witness: both fields were filled and the stored ports are those of ports
C26_Witness ==
    /\ Accepted
    /\ lastEvent.raw.ports.items = <<StringEntry("p1")>>
    /\ lastEvent.raw.entities.items = <<StringEntry("p2")>>
    /\ config.ports = <<Port("p1", Undefined, Undefined, Undefined)>>

\* the list of the accepted argument holds strings and objects with an entity only
WellFormedList ==
    /\ Accepted
    /\ Len(NamedList(lastEvent.raw)) > 0
    /\ \A i \in DOMAIN NamedList(lastEvent.raw) :
          LET entry == NamedList(lastEvent.raw)[i]
          IN  entry.kind = "string" \/ (entry.kind = "object" /\ entry.entity # "")

\* C27: a non-empty list of strings and objects with an entity is stored entry by
\* entry, in the same order: a string as an entry with that entity and nothing
\* else, an object with its entity and its label unchanged.
C27_NormalizationTotal ==
    WellFormedList =>
        /\ Len(config.ports) = Len(NamedList(lastEvent.raw))
        /\ \A i \in DOMAIN config.ports :
              LET entry == NamedList(lastEvent.raw)[i]
              IN  IF entry.kind = "string"
                  THEN config.ports[i] =
                          [entity |-> entry.entity, x |-> Undefined, y |-> Undefined,
                           label |-> Undefined]
                  ELSE /\ config.ports[i].entity = entry.entity
                       /\ config.ports[i].label = entry.label

\* C27 witness: a labelled object and a string were stored in that order
C27_Witness ==
    /\ WellFormedList
    /\ Len(config.ports) = 2
    /\ config.ports[1].entity = "p1" /\ config.ports[1].label = Str("L1")
    /\ config.ports[2] = Port("p1", Undefined, Undefined, Undefined)
    /\ lastEvent.raw.ports.items[2].kind = "string"

\* the operations of the explicit-ports card that end with a render
RenderingOps == {"setConfig", "hass", "clickPort", "clickCancel", "clickBackdrop"}

\* C28: in the explicit-ports card a state push that repeats the current snapshot
\* right after a render leaves the displayed tree as it was, and changes neither
\* configuration, dialog state nor discovery flags.
C28_IdempotentRender ==
    [][(/\ variant = "dialog"
        /\ lastEvent.op \in RenderingOps
        /\ lastEvent'.op = "hass"
        /\ hass' = hass)
          => /\ output' = output
             /\ config' = config
             /\ dialogEntity' = dialogEntity
             /\ needsAuto' = needsAuto
             /\ autoStarted' = autoStarted]_vars

\* C28 witness: a state push re-rendered a tree of MaxPorts ports with its dialog open
C28_Witness ==
    /\ variant = "dialog"
    /\ lastEvent.op = "hass"
    /\ Rendered
    /\ Len(output.ports) = MaxPorts
    /\ output.dialog.open
    /\ output.dialog.entity = dialogEntity

-----------------------------------------------------------------------------
(* Properties of the completion of a discovery and of the pushes after it *)

\* a discovery of the stored configuration has filled in its ports
OwnPortsDiscovered ==
    /\ variant = "auto"
    /\ startedSinceConfig > 0
    /\ ~needsAuto
    /\ Len(config.ports) > 0

\* C31: when a discovery completes with a non-empty result under the configuration
\* that started it, the stored ports become one entry {entity: id} per identifier
\* in result order, the discovery flag is cleared and the card is re-rendered from
\* them; after that a state push starts no discovery and leaves the stored ports.
C31_DiscoveryInstalled ==
    [][/\ (lastEvent'.op = "discoveryThen" /\ Len(lastEvent'.after.list) > 0)
            => /\ Len(config'.ports) = Len(lastEvent'.after.list)
               /\ \A i \in DOMAIN config'.ports :
                     config'.ports[i] =
                        [entity |-> lastEvent'.after.list[i], x |-> Undefined,
                         y |-> Undefined, label |-> Undefined]
               /\ ~needsAuto'
               /\ output'.ports = ReconcileAuto(config'.ports, hass')
       /\ (OwnPortsDiscovered /\ lastEvent'.op = "hass")
            => /\ lastEvent'.arg # "discovery"
               /\ discoveries' = discoveries
               /\ config' = config
               /\ ~needsAuto']_vars

\* C31 witness: the three discovered ports are stored in result order and a state
\* push after the completion left them and started nothing
C31_Witness ==
    /\ OwnPortsDiscovered
    /\ lastEvent.op = "hass"
    /\ startedSinceConfig = 1
    /\ config.ports = <<Port("p2", Undefined, Undefined, Undefined),
                        Port("p3", Undefined, Undefined, Undefined),
                        Port("p1", Undefined, Undefined, Undefined)>>

\* the discoveries in flight that have not yet got their last answer
Outstanding == {d \in BagToSet(discoveries) : d.stage # "resolved"}

\* the stored configuration has an empty port list and no discovery was started
\* under it, nor did one of an older configuration fill in ports
Armed ==
    /\ variant = "auto"
    /\ config.set
    /\ startedSinceConfig = 0
    /\ latestPorts = <<>>
    /\ config.ports = <<>>

\* C32: every configuration push with an empty port list re-arms discovery: the
\* next state push starts a new discovery, also after an earlier discovery failed
\* or came back empty, and also while an earlier discovery is still outstanding,
\* which then stays in flight next to the new one.
C32_ConfigRearms ==
    [][/\ (lastEvent'.op = "setConfig" /\ lastEvent'.input.noPorts /\ variant = "auto")
            => needsAuto' /\ ~autoStarted' /\ startedSinceConfig' = 0
       /\ (Armed /\ lastEvent'.op = "hass")
            => /\ lastEvent'.arg = "discovery"
               /\ autoStarted'
               /\ BagCardinality(discoveries') = BagCardinality(discoveries) + 1
               /\ \A d \in Outstanding : BagIn(d, discoveries')]_vars

\* C32 witness: a state push has just started a discovery while the discovery of
\* an older configuration is still waiting for its answer
C32_Witness ==
    /\ lastEvent.op = "hass"
    /\ lastEvent.arg = "discovery"
    /\ \E d \in Outstanding : d.superseded
    /\ \E d \in Outstanding : ~d.superseded

-----------------------------------------------------------------------------
(* Properties of the dialog *)

\* C33: after every processed event the displayed tree holds a dialog exactly when
\* the dialog state is open, and the dialog shown is the one for the entity the
\* dialog state names.
C33_DialogShownIffOpen ==
    /\ output.dialog.open <=> dialogEntity # ""
    /\ output.dialog.open => output.dialog.entity = dialogEntity

\* C33 witness: after a failed invocation the dialog state is open for p2 and the
\* tree shows the dialog for p2
C33_Witness ==
    /\ lastEvent.op = "callFailed"
    /\ dialogEntity = "p2"
    /\ output.dialog.open
    /\ output.dialog.entity = "p2"

-----------------------------------------------------------------------------
(* The stored layout *)

\* every stored port has finite numeric x and y
StoredCoordinatesFinite ==
    \A i \in DOMAIN config.ports :
        config.ports[i].x.t = "number" /\ config.ports[i].y.t = "number"

\* C34 (as claimed): with no layout configured the stored layout is "image" if and
\* only if every normalized port has finite numeric x and y, and "grid" otherwise;
\* a configured layout is stored as given.
C34_Original ==
    Accepted =>
        /\ lastEvent.raw.layout = ""
              => /\ config.layout \in {"image", "grid"}
                 /\ config.layout = "image" <=> StoredCoordinatesFinite
        /\ lastEvent.raw.layout # "" => config.layout = lastEvent.raw.layout

\* C34 (amended): with no layout configured and a non-empty port list the stored
\* layout is "image" if and only if every normalized port has finite numeric x
\* and y, and "grid" otherwise; with no layout configured and an empty port list
\* (discovery card) it is "grid"; a configured layout is stored as given.
C34_Amended ==
    Accepted =>
        /\ (lastEvent.raw.layout = "" /\ Len(config.ports) > 0)
              => /\ config.layout \in {"image", "grid"}
                 /\ config.layout = "image" <=> StoredCoordinatesFinite
        /\ (lastEvent.raw.layout = "" /\ Len(config.ports) = 0) => config.layout = "grid"
        /\ lastEvent.raw.layout # "" => config.layout = lastEvent.raw.layout

\* C34 witness: no layout was configured, both ports have numeric coordinates and
\* the stored layout is "image"
C34_Witness ==
    /\ Accepted
    /\ lastEvent.raw.layout = ""
    /\ Len(config.ports) = 2
    /\ StoredCoordinatesFinite
    /\ config.layout = "image"

\* an invocation issued from the dialog of the entity is outstanding
AwaitingFor(entityId) ==
    \E c \in BagToSet(pending) : c.closes /\ c.entity_id = entityId

\* C35: a confirmed toggle or description edit leaves the dialog open while its
\* invocation is outstanding; the dialog is closed by the action only at the
\* successful completion of the invocation, never at the confirming click and
\* never when the invocation fails; any other close is the operator's cancel or
\* backdrop click.
C35_CloseAwaitsCompletion ==
    [][/\ lastEvent'.op \in {"clickToggle", "clickSave"}
            => /\ dialogEntity' = dialogEntity
               /\ output' = output
               /\ AwaitingFor(dialogEntity)'
       /\ lastEvent'.op = "callFailed" => dialogEntity' = dialogEntity /\ output' = output
       /\ (dialogEntity # "" /\ dialogEntity' = "")
            => lastEvent'.op \in {"callSucceeded", "clickCancel", "clickBackdrop"}]_vars

\* C35 witness: the invocation confirmed in the dialog for p1 is outstanding, a
\* state push has been processed meanwhile, and the dialog is still open for p1
C35_Witness ==
    /\ AwaitingFor("p1")
    /\ lastEvent.op = "hass"
    /\ dialogEntity = "p1"
    /\ output.dialog.open

-----------------------------------------------------------------------------
(* A rejected configuration *)

\* C36: a setConfig call that throws leaves the stored configuration, the
\* snapshot, the dialog state, the discovery flags, the discoveries in flight and
\* the displayed tree as they were.
C36_RejectedConfigChangesNothing ==
    [][lastEvent'.op = "setConfigThrew"
          => /\ lastEvent'.arg # ""
             /\ UNCHANGED <<config, hass, dialogEntity, needsAuto, autoStarted, output,
                            discoveries, pending, latestPorts>>]_vars

\* C36 witness: the discovery card rejected a configuration while a discovery of
\* the stored configuration was in flight, and flags and discovery are as before
C36_Witness ==
    /\ lastEvent.op = "setConfigThrew"
    /\ variant = "auto"
    /\ config.set
    /\ needsAuto
    /\ autoStarted
    /\ \E d \in BagToSet(discoveries) : ~d.superseded

\* the explicit-ports card rejected a configuration while its dialog was open
RejectedWithDialogOpen ==
    /\ lastEvent.op = "setConfigThrew"
    /\ variant = "dialog"
    /\ config.set
    /\ output.dialog.open

-----------------------------------------------------------------------------
(* Completion of an invocation while another dialog is open *)

\* C37: the successful completion of an invocation issued from the dialog closes
\* whichever dialog is open at that moment, also the dialog for another port that
\* the operator opened while the invocation was outstanding.
C37_CompletionClosesAnyDialog ==
    [][(variant = "dialog" /\ lastEvent'.op = "callSucceeded")
          => /\ dialogEntity' = ""
             /\ ~output'.dialog.open
             /\ lastEvent'.closed = dialogEntity]_vars

\* C37 witness: the completion of the invocation for p1 closed the dialog for p2
C37_Witness ==
    /\ lastEvent.op = "callSucceeded"
    /\ lastEvent.arg = "p1"
    /\ lastEvent.closed = "p2"
    /\ dialogEntity = ""
    /\ ~output.dialog.open

-----------------------------------------------------------------------------
(* State pushes after a discovery without result, and under explicit ports *)

\* the discovery started under the stored configuration has ended, by a failed
\* query or with an empty result, and nothing has filled in ports
EndedWithoutPorts ==
    /\ variant = "auto"
    /\ config.set
    /\ startedSinceConfig > 0
    /\ needsAuto
    /\ config.ports = <<>>
    /\ \A d \in BagToSet(discoveries) : d.superseded

ExplicitPorts ==
    /\ variant = "auto"
    /\ config.set
    /\ latestPorts # <<>>
    /\ startedSinceConfig = 0

\* C39: under a configuration pushed with a non-empty explicit port list no
\* discovery in flight belongs to that configuration, and no state push starts
\* one, whether or not a device is named and whether or not a port has a state.
C39_ExplicitNeverDiscovers ==
    [][/\ ExplicitPorts => \A d \in BagToSet(discoveries) : d.superseded
       /\ (ExplicitPorts /\ lastEvent'.op = "hass")
            => /\ lastEvent'.arg # "discovery"
               /\ discoveries' = discoveries
               /\ ~autoStarted'
               /\ ExplicitPorts']_vars

\* C39 witness: explicit ports with device_id dev1, a state push of a snapshot
\* without a state for any configured port, and no discovery in flight
C39_Witness ==
    /\ ExplicitPorts
    /\ lastEvent.op = "hass"
    /\ config.device_id = "dev1"
    /\ Len(config.ports) = 2
    /\ output.ports = <<>>
    /\ discoveries = EmptyBag

-----------------------------------------------------------------------------
(* A state push while the dialog is open *)

\* C40: a state push received while the dialog is open for X rebuilds the dialog
\* from the pushed snapshot: the description input holds X's description attribute
\* in that snapshot, or nothing when X has no state or no description, and text
\* typed but not saved is gone.
C40_PushResetsInput ==
    [][(variant = "dialog" /\ lastEvent'.op = "hass" /\ dialogEntity # "")
          => /\ output'.dialog.open
             /\ output'.dialog.entity = dialogEntity
             /\ output'.dialog.input =
                   IF hass'.states[dialogEntity].present
                   THEN hass'.states[dialogEntity].description
                   ELSE ""]_vars

\* C40 witness: the operator had typed text into the dialog for p1, a state push
\* arrived, and the input holds the description of p1 in the pushed snapshot
C40_Witness ==
    /\ lastEvent.op = "hass"
    /\ lastEvent.arg = "typed"
    /\ dialogEntity = "p1"
    /\ hass.states["p1"].description = "old"
    /\ output.dialog.input = "old"

====
